---- MODULE Spec2Model ----
(***************************************************************************)
(* Model of grub-core/loader/mips64/linux.c: the `linux' and `initrd'      *)
(* commands, the boot and unload handlers, the module's static state, and  *)
(* the argument blob they build.                                           *)
(*                                                                         *)
(* 64-bit and 32-bit machine words are sequences of hexadecimal digits,    *)
(* most significant first (16 digits for grub_addr_t / grub_uint64_t,      *)
(* 8 for grub_uint32_t), so that they keep their width.  Strings are       *)
(* sequences of character codes.                                           *)
(***************************************************************************)
EXTENDS Integers, Sequences, FiniteSets, TLC

(* ------------------------------------------------------------------ *)
(* Bounds of the model                                                 *)
(* ------------------------------------------------------------------ *)

\* Number of relocators the heap can hold at once; grub_relocator_new
\* returns NULL when that many are live.
HeapRelocators == 2

\* Number of chunks a relocator may hold for a failing payload load to be
\* explored: bounds the chunks that failed `initrd' commands leave behind.
MaxChunks == 3

(* ------------------------------------------------------------------ *)
(* Machine words                                                       *)
(* ------------------------------------------------------------------ *)

W64 == 16
W32 == 8

ZeroW(w) == [i \in 1..w |-> 0]

RECURSIVE FromNat(_, _)
\* the w-digit word holding the natural n (mod 16^w)
FromNat(n, w) ==
  IF w = 0 THEN << >> ELSE Append(FromNat(n \div 16, w - 1), n % 16)

RECURSIVE AddCarry(_, _, _)
AddCarry(a, b, c) ==
  IF a = << >> THEN << >>
  ELSE LET n == Len(a)
           s == a[n] + b[n] + c
       IN  Append(AddCarry(SubSeq(a, 1, n - 1), SubSeq(b, 1, n - 1), s \div 16),
                  s % 16)

\* a + b in the width of a (wraps)
AddW(a, b) == AddCarry(a, b, 0)

\* pointer + byte offset
AddOff(a, k) == AddW(a, FromNat(k, Len(a)))

\* (grub_uint32_t) of a 64-bit word
Narrow32(a) == SubSeq(a, Len(a) - W32 + 1, Len(a))

\* a 32-bit header field widened to grub_addr_t (unsigned, zero-extended)
Widen64(a) == ZeroW(W64 - Len(a)) \o a

ALIGN_UP(x, a) == ((x + a - 1) \div a) * a

RECURSIVE ToNat(_)
\* the number a word holds (for words that hold small numbers)
ToNat(a) ==
  IF a = << >> THEN 0 ELSE ToNat(SubSeq(a, 1, Len(a) - 1)) * 16 + a[Len(a)]

(* ------------------------------------------------------------------ *)
(* Strings                                                             *)
(* ------------------------------------------------------------------ *)

HexChar(d) == IF d < 10 THEN 48 + d ELSE 87 + d

RECURSIVE StripZeros(_)
StripZeros(a) ==
  IF Len(a) <= 1 THEN a
  ELSE IF a[1] = 0 THEN StripZeros(Tail(a)) ELSE a

\* "%lx" of a 64-bit word
FormatHex(a) == LET d == StripZeros(a) IN [i \in 1..Len(d) |-> HexChar(d[i])]

Str_a0 == <<97, 48>>
Str_rd_start == <<114, 100, 95, 115, 116, 97, 114, 116, 61, 48, 120>>
Str_rd_size == <<114, 100, 95, 115, 105, 122, 101, 61, 48, 120>>

\* sizeof of a string literal of n characters
SizeofLit(n) == n + 1

(* ------------------------------------------------------------------ *)
(* More word arithmetic                                                *)
(* ------------------------------------------------------------------ *)

NotW(a) == [i \in 1..Len(a) |-> 15 - a[i]]

\* a - b in the width of a (wraps)
SubW(a, b) == AddCarry(a, NotW(b), 1)

RECURSIVE LessEqW(_, _)
\* unsigned a <= b, same width
LessEqW(a, b) ==
  IF a = << >> THEN TRUE
  ELSE IF a[1] # b[1] THEN a[1] < b[1]
  ELSE LessEqW(Tail(a), Tail(b))

\* the low 16 bits of a word, as a number
Low16(a) ==
  LET n == Len(a) IN ((a[n - 3] * 16 + a[n - 2]) * 16 + a[n - 1]) * 16 + a[n]

\* a is a multiple of al, for al a power of two up to 0x10000
AlignedW(a, al) == Low16(a) % al = 0

NULL == ZeroW(W64)

\* 0xffffffff
Ones32 == [i \in 1..W32 |-> 15]

(* ------------------------------------------------------------------ *)
(* Inputs: command lines, kernel images, allocator answers             *)
(* ------------------------------------------------------------------ *)

Str_k == <<107>>
Str_ro == <<114, 111>>
Str_init == <<105, 110, 105, 116>>

\* argv of the `linux' command: argv[0] is the file name
Argvs == { << >>, <<Str_k>>, <<Str_k, Str_init, Str_ro>> }

\* argv of the `initrd' command
InitrdArgvs == { << >>, <<Str_k>> }

\* 0x80010000, 0x80010400, 0x80200000, 0x80200040
Addr32_base == <<8, 0, 0, 1, 0, 0, 0, 0>>
Addr32_entry == <<8, 0, 0, 1, 0, 4, 0, 0>>
Addr64_base == <<15, 15, 15, 15, 15, 15, 15, 15, 8, 0, 0, 1, 0, 0, 0, 0>>
Addr64_entry == <<15, 15, 15, 15, 15, 15, 15, 15, 8, 0, 0, 1, 0, 4, 0, 0>>
Addr64_base2 == <<15, 15, 15, 15, 15, 15, 15, 15, 8, 0, 2, 0, 0, 0, 0, 0>>
Addr64_entry2 == <<15, 15, 15, 15, 15, 15, 15, 15, 8, 0, 2, 0, 0, 0, 4, 0>>

\* What grub_elf_open and the ELF helpers report about a file: whether it
\* opens, e_type, the class (32, 64, or 0 for neither), e_entry, and the
\* (base, span) grub_elfNN_size computes (span 0: invalid or empty).
Img(open, type, class, entry, base, span) ==
  [open |-> open, e_type |-> type, class |-> class, e_entry |-> entry,
   base |-> base, span |-> span]

Images ==
  { Img(FALSE, "ET_EXEC", 64, Addr64_entry, Addr64_base, 131072),
    Img(TRUE, "ET_DYN", 64, Addr64_entry, Addr64_base, 131072),
    Img(TRUE, "ET_EXEC", 0, Addr64_entry, Addr64_base, 131072),
    Img(TRUE, "ET_EXEC", 32, Addr32_entry, Addr32_base, 0),
    Img(TRUE, "ET_EXEC", 32, Addr32_entry, Addr32_base, 131072),
    Img(TRUE, "ET_EXEC", 64, Addr64_entry2, Addr64_base2, 131069) }

\* Where the allocator can place a chunk: the physical target address and
\* the locally mapped address of the chunk's current storage.
\*   0x0fff0000 mapped at 0xffffffff8fff0000
\*   0x8ffe0000 mapped at 0x980000008ffe0000
Placements ==
  { [target |-> <<0, 0, 0, 0, 0, 0, 0, 0, 0, 15, 15, 15, 0, 0, 0, 0>>,
     srcv |-> <<15, 15, 15, 15, 15, 15, 15, 15, 8, 15, 15, 15, 0, 0, 0, 0>>],
    [target |-> <<0, 0, 0, 0, 0, 0, 0, 0, 8, 15, 15, 14, 0, 0, 0, 0>>,
     srcv |-> <<9, 8, 0, 0, 0, 0, 0, 0, 8, 15, 15, 14, 0, 0, 0, 0>>] }

\* Where the allocator can place the ramdisk chunk:
\*   0x0ff00000 mapped at 0xffffffff8ff00000
InitrdPlacements ==
  { [target |-> <<0, 0, 0, 0, 0, 0, 0, 0, 0, 15, 15, 0, 0, 0, 0, 0>>,
     srcv |-> <<15, 15, 15, 15, 15, 15, 15, 15, 8, 15, 15, 0, 0, 0, 0, 0>>] }

\* total sizes grub_get_initrd_size can return: 0x1000
InitrdSizes == { FromNat(4096, W64) }

APlacement == CHOOSE p \in Placements : TRUE

AnInitrdPlacement == CHOOSE p \in InitrdPlacements : TRUE

NoImage == Img(FALSE, "ET_EXEC", 64, Addr64_entry, Addr64_base, 131072)

\* images the allocator is asked to place
GoodImages ==
  { i \in Images : i.open /\ i.e_type = "ET_EXEC" /\ i.class # 0 /\ i.span # 0 }

\* The answers of the collaborators during one `linux' command: the
\* image, whether grub_relocator_new, the kernel chunk, the segment load
\* and the argument chunk succeed, and where the argument chunk goes.
LinuxIn(argv, img, relnew, kchunk, elfload, achunk, place) ==
  [argv |-> argv, img |-> img, relnew |-> relnew, kchunk |-> kchunk,
   elfload |-> elfload, achunk |-> achunk, place |-> place]

\* An answer that is never asked for (the step before it failed) has one
\* value only.
LinuxInputs ==
  { LinuxIn(<< >>, NoImage, FALSE, FALSE, FALSE, FALSE, APlacement) }
  \cup { LinuxIn(a, i, FALSE, FALSE, FALSE, FALSE, APlacement) :
           a \in Argvs \ {<< >>}, i \in Images }
  \cup { LinuxIn(a, i, TRUE, k, FALSE, FALSE, APlacement) :
           a \in Argvs \ {<< >>}, i \in GoodImages, k \in BOOLEAN }
  \cup { LinuxIn(a, i, TRUE, TRUE, TRUE, FALSE, APlacement) :
           a \in Argvs \ {<< >>}, i \in GoodImages }
  \cup { LinuxIn(a, i, TRUE, TRUE, TRUE, TRUE, p) :
           a \in Argvs \ {<< >>}, i \in GoodImages, p \in Placements }

\* The answers of the collaborators during one `initrd' command: whether
\* grub_initrd_init succeeds, the total size, whether and where the chunk
\* is allocated, whether grub_initrd_load succeeds.
InitrdIn(argv, init, size, chunk, place, load) ==
  [argv |-> argv, init |-> init, size |-> size, chunk |-> chunk,
   place |-> place, load |-> load]

InitrdInputs ==
  { InitrdIn(a, FALSE, ZeroW(W64), FALSE, AnInitrdPlacement, FALSE) :
      a \in InitrdArgvs }
  \cup { InitrdIn(a, TRUE, z, FALSE, AnInitrdPlacement, FALSE) :
           a \in InitrdArgvs \ {<< >>}, z \in InitrdSizes }
  \cup { InitrdIn(a, TRUE, z, TRUE, p, l) :
           a \in InitrdArgvs \ {<< >>}, z \in InitrdSizes,
           p \in InitrdPlacements, l \in BOOLEAN }

(* ------------------------------------------------------------------ *)
(* Program state                                                       *)
(* ------------------------------------------------------------------ *)

\* The module's statics (source names), the loader framework's registration
\* of this module's boot/unload handlers (loader_set), the reference count
\* of my_mod, the live relocators with the chunks each holds (heap), the
\* flag of a use after free (ub), the memory of
\* the chunk linux_args_addr points to (argmem), grub_errno, and what the
\* last command handed out: its return value (ret), for boot the
\* register state given to grub_relocator64_boot (regs), and the calls it
\* made to the allocator, in order, granted or not (req).
VARIABLES
  loaded, linux_size, relocator, target_addr, entry_addr, linux_argc,
  linux_args_addr, rd_addr_arg_off, rd_size_arg_off, initrd_loaded,
  loader_set, mod_ref, heap, argmem, grub_errno, ub, ret, regs, req

progVars ==
  <<loaded, linux_size, relocator, target_addr, entry_addr, linux_argc,
    linux_args_addr, rd_addr_arg_off, rd_size_arg_off, initrd_loaded,
    loader_set, mod_ref, heap, argmem, grub_errno, ub, ret, regs, req>>

\* the program state as one value
Cur ==
  [loaded |-> loaded, linux_size |-> linux_size, relocator |-> relocator,
   target_addr |-> target_addr, entry_addr |-> entry_addr,
   linux_argc |-> linux_argc, linux_args_addr |-> linux_args_addr,
   rd_addr_arg_off |-> rd_addr_arg_off, rd_size_arg_off |-> rd_size_arg_off,
   initrd_loaded |-> initrd_loaded, loader_set |-> loader_set,
   mod_ref |-> mod_ref, heap |-> heap, argmem |-> argmem,
   grub_errno |-> grub_errno, ub |-> ub, ret |-> ret, regs |-> regs,
   req |-> req]

\* the next program state is s
Commit(s) ==
  /\ loaded' = s.loaded
  /\ linux_size' = s.linux_size
  /\ relocator' = s.relocator
  /\ target_addr' = s.target_addr
  /\ entry_addr' = s.entry_addr
  /\ linux_argc' = s.linux_argc
  /\ linux_args_addr' = s.linux_args_addr
  /\ rd_addr_arg_off' = s.rd_addr_arg_off
  /\ rd_size_arg_off' = s.rd_size_arg_off
  /\ initrd_loaded' = s.initrd_loaded
  /\ loader_set' = s.loader_set
  /\ mod_ref' = s.mod_ref
  /\ heap' = s.heap
  /\ argmem' = s.argmem
  /\ grub_errno' = s.grub_errno
  /\ ub' = s.ub
  /\ ret' = s.ret
  /\ regs' = s.regs
  /\ req' = s.req

NoRegs == [gpr1 |-> NULL, gpr4 |-> 0, gpr5 |-> NULL, jumpreg |-> 0]

\* no argument chunk: nothing allocated, nothing written
NoMem == [size |-> 0, bytes |-> << >>, oob |-> FALSE]

\* static storage is zero-initialised
InitState ==
  [loaded |-> 0, linux_size |-> 0, relocator |-> 0,
   target_addr |-> NULL, entry_addr |-> NULL,
   linux_argc |-> 0, linux_args_addr |-> NULL,
   rd_addr_arg_off |-> 0, rd_size_arg_off |-> 0,
   initrd_loaded |-> 0, loader_set |-> FALSE,
   mod_ref |-> 0, heap |-> << >>, argmem |-> NoMem,
   grub_errno |-> "NONE", ub |-> FALSE, ret |-> "NONE", regs |-> NoRegs,
   req |-> << >>]

\* a command starts with grub_errno clear; s.ret is what it returns
Enter(s) ==
  [s EXCEPT !.grub_errno = "NONE", !.ret = "NONE", !.regs = NoRegs,
            !.req = << >>]

\* grub_error (code, ...): sets grub_errno and returns the code
grub_error(s, code) == [s EXCEPT !.grub_errno = code, !.ret = code]

\* return grub_errno;
ReturnErrno(s) == [s EXCEPT !.ret = s.grub_errno]

(* ------------------------------------------------------------------ *)
(* Relocator / allocator / loader framework                            *)
(* ------------------------------------------------------------------ *)

Live(s) == DOMAIN s.heap

\* A call to the allocator: grub_relocator_new ("new"),
\* grub_relocator_alloc_chunk_addr ("chunk_addr": the physical address and
\* the size) or grub_relocator_alloc_chunk_align ("chunk_align": min_addr,
\* max_addr, size and alignment).  Addresses and sizes are 64-bit words.
ReqNew ==
  [fn |-> "new", addr |-> NULL, min |-> NULL, max |-> NULL, size |-> NULL,
   align |-> 0]

ReqAddr(addr, size) ==
  [fn |-> "chunk_addr", addr |-> addr, min |-> NULL, max |-> NULL,
   size |-> size, align |-> 0]

ReqAlign(min, max, size, align) ==
  [fn |-> "chunk_align", addr |-> NULL, min |-> min, max |-> max,
   size |-> size, align |-> align]

\* the call r is made
Asked(s, r) == [s EXCEPT !.req = Append(@, r)]

FreeIds(s) == (1..HeapRelocators) \ Live(s)

\* grub_relocator_new: a fresh relocator without chunks, or 0 (NULL) when
\* the allocator refuses (ok = FALSE) or the heap is exhausted
grub_relocator_new(s, ok) ==
  IF ok /\ FreeIds(s) # {}
  THEN CHOOSE r \in FreeIds(s) : \A q \in FreeIds(s) : r <= q
  ELSE 0

WithRelocator(s, r) ==
  [s EXCEPT !.heap = [q \in DOMAIN s.heap \cup {r} |->
                        IF q = r THEN << >> ELSE s.heap[q]]]

\* a chunk of kind ch ("kernel", "args", "initrd") allocated in relocator
\* rel; a relocator that was released is used after free
AddChunk(s, rel, ch) ==
  IF rel \in Live(s)
  THEN [s EXCEPT !.heap[rel] = Append(@, ch)]
  ELSE [s EXCEPT !.ub = TRUE]

\* grub_relocator_unload: releases the relocator and all its chunks;
\* NULL is ignored, a relocator already released is a double free
grub_relocator_unload(s, rel) ==
  IF rel = 0 THEN s
  ELSE IF rel \in Live(s)
  THEN [s EXCEPT !.heap = [q \in DOMAIN s.heap \ {rel} |-> s.heap[q]]]
  ELSE [s EXCEPT !.ub = TRUE]

\* grub_vtop: the physical address of a mapped address (the low 29 bits)
grub_vtop(a) ==
  [i \in 1..W64 |-> IF i <= 8 THEN 0 ELSE IF i = 9 THEN a[i] % 2 ELSE a[i]]

(* ------------------------------------------------------------------ *)
(* grub_linux_boot, grub_linux_unload                                  *)
(* ------------------------------------------------------------------ *)

\* grub_linux_boot jumping to the load address instead of the entry
grub_linux_boot_target(s) ==
  [s EXCEPT !.regs = [gpr1 |-> s.target_addr,
                      gpr4 |-> s.linux_argc,
                      gpr5 |-> s.linux_args_addr,
                      jumpreg |-> 1],
            !.ub = (s.ub \/ s.relocator \notin Live(s)),
            !.ret = "NONE"]

\* lines 52-68
grub_linux_boot(s) ==
  [s EXCEPT !.regs = [gpr1 |-> s.entry_addr,
                      gpr4 |-> s.linux_argc,
                      gpr5 |-> s.linux_args_addr,
                      jumpreg |-> 1],
            !.ub = (s.ub \/ s.relocator \notin Live(s)),
            !.ret = "NONE"]

\* grub_linux_unload without loaded = 0
grub_linux_unload_keeps_loaded(s) ==
  [grub_relocator_unload(s, s.relocator) EXCEPT
     !.mod_ref = @ - 1,
     !.ret = "NONE"]

\* lines 70-79
grub_linux_unload(s) ==
  [grub_relocator_unload(s, s.relocator) EXCEPT
     !.mod_ref = @ - 1,
     !.loaded = 0,
     !.ret = "NONE"]

\* grub_loader_unset: runs the registered unload handler, if any, and
\* forgets the handlers
grub_loader_unset(s) ==
  IF s.loader_set
  THEN [grub_linux_unload(s) EXCEPT !.loader_set = FALSE]
  ELSE s

\* grub_loader_set (grub_linux_boot, grub_linux_unload, ...): unloads what
\* was registered and registers this module's handlers
grub_loader_set(s) == [grub_loader_unset(s) EXCEPT !.loader_set = TRUE]

(* ------------------------------------------------------------------ *)
(* Memory of the argument chunk                                        *)
(* ------------------------------------------------------------------ *)

\* A chunk's memory: size bytes, bytes[k + 1] the byte at offset k, which
\* is Unwritten until the program stores to it; oob records a store that
\* fell outside the chunk.  32-bit stores are little-endian (mips64el).
Unwritten == 0 - 1

FreshMem(size) ==
  [size |-> size, bytes |-> [k \in 1..size |-> Unwritten], oob |-> FALSE]

\* a store of the bytes bs at offset off; one that does not fit in the
\* chunk is recorded in oob
WriteBytes(m, off, bs) ==
  IF off < 0 \/ off + Len(bs) > m.size
  THEN [m EXCEPT !.oob = TRUE]
  ELSE [m EXCEPT !.bytes = SubSeq(m.bytes, 1, off) \o bs
                           \o SubSeq(m.bytes, off + Len(bs) + 1, m.size)]

WordBytes(w) ==
  <<w[7] * 16 + w[8], w[5] * 16 + w[6], w[3] * 16 + w[4], w[1] * 16 + w[2]>>

\* ((grub_uint32_t *) chunk)[idx] = w
WriteSlot(m, idx, w) == WriteBytes(m, 4 * idx, WordBytes(w))

\* ((grub_uint32_t *) chunk)[idx]
ReadSlot(m, idx) ==
  LET b(k) == m.bytes[4 * idx + k] IN
  <<b(4) \div 16, b(4) % 16, b(3) \div 16, b(3) % 16,
    b(2) \div 16, b(2) % 16, b(1) \div 16, b(1) % 16>>

\* grub_memcpy (chunk + off, str, grub_strlen (str) + 1)
WriteStr(m, off, str) == WriteBytes(m, off, Append(str, 0))

\* grub_snprintf (chunk + off, n, ...) producing str: at most n - 1
\* characters, then the terminator
Snprintf(m, off, n, str) ==
  WriteStr(m, off, IF Len(str) > n - 1 THEN SubSeq(str, 1, n - 1) ELSE str)

RECURSIVE CStringAt(_, _)
\* the NUL-terminated string at offset off of the chunk
CStringAt(m, off) ==
  IF off < 0 \/ off >= m.size THEN << >>
  ELSE IF m.bytes[off + 1] = 0 THEN << >>
  ELSE <<m.bytes[off + 1]>> \o CStringAt(m, off + 1)

(* ------------------------------------------------------------------ *)
(* grub_linux_load32, grub_linux_load64                                *)
(* ------------------------------------------------------------------ *)

\* lines 103-105 (137-139): the kernel chunk is asked for at
\* grub_vtop (target_addr), linux_size bytes long
load_ask(s) ==
  Asked(s, ReqAddr(grub_vtop(s.target_addr), FromNat(s.linux_size, W64)))

\* lines 101-112 (135-146): the kernel chunk at the fixed address, then
\* the segments; in.kchunk and in.elfload are the collaborators' answers
load_chunk(s, in) ==
  IF ~in.kchunk
  THEN grub_error(load_ask(s), "OUT_OF_RANGE")
  ELSE IF ~in.elfload
  THEN grub_error(AddChunk(load_ask(s), s.relocator, "kernel"), "BAD_OS")
  ELSE [AddChunk(load_ask(s), s.relocator, "kernel") EXCEPT !.ret = "NONE"]

\* lines 97-99 (131-133): relocator = grub_relocator_new (), rel its result
load_relocator(s, rel, in) ==
  IF rel = 0
  THEN ReturnErrno([s EXCEPT !.relocator = 0, !.grub_errno = "OUT_OF_MEMORY"])
  ELSE load_chunk([WithRelocator(s, rel) EXCEPT !.relocator = rel], in)

\* lines 94-95 (128-129) without ALIGN_UP
load_span_not_rounded(s, base, span) ==
  [s EXCEPT !.target_addr = base,
            !.linux_size = ToNat(SubW(AddW(base, span), base))]

\* lines 94-95 (128-129): target_addr and the rounded size
load_span(s, base, span) ==
  [s EXCEPT !.target_addr = base,
            !.linux_size = ALIGN_UP(ToNat(SubW(AddW(base, span), base)), 8)]

\* lines 97-112 (131-146)
load_place(s, in) ==
  load_relocator(Asked(s, ReqNew), grub_relocator_new(s, in.relnew), in)

\* lines 91-112 (125-146) without the test of linux_size == 0
linux_load_common_no_empty_check(s, in) ==
  load_place(load_span(s, Widen64(in.img.base),
                       FromNat(in.img.span, W64)), in)

\* lines 91-112 (125-146): common to both widths once entry_addr is set
linux_load_common(s, in) ==
  IF in.img.span = 0
  THEN \* grub_elfNN_size failed and set grub_errno
       ReturnErrno([s EXCEPT !.linux_size = 0, !.grub_errno = "BAD_OS"])
  ELSE load_place(load_span(s, Widen64(in.img.base),
                            FromNat(in.img.span, W64)), in)

\* lines 81-113
grub_linux_load32(s, in) ==
  linux_load_common([s EXCEPT !.entry_addr = Widen64(in.img.e_entry)], in)

\* lines 115-147
grub_linux_load64(s, in) ==
  linux_load_common([s EXCEPT !.entry_addr = in.img.e_entry], in)

(* ------------------------------------------------------------------ *)
(* grub_cmd_linux                                                      *)
(* ------------------------------------------------------------------ *)

RECURSIVE ArgsLen(_, _)
\* lines 190-191: the sum over i = 1 .. argc - 1 (argv[i] is argv[i + 1]
\* here) of ALIGN_UP (grub_strlen (argv[i]) + 1, 4), from index i on
ArgsLen(argv, i) ==
  IF i > Len(argv) THEN 0
  ELSE ALIGN_UP(Len(argv[i]) + 1, 4) + ArgsLen(argv, i + 1)

\* lines 178-197 without line 195
linux_args_size_one_region(argv) ==
  ALIGN_UP(Len(argv) * 4 + 2 * 4 + 4
           + ALIGN_UP(SizeofLit(Len(Str_a0)), 4)
           + ArgsLen(argv, 2)
           + ALIGN_UP(SizeofLit(Len(Str_rd_start) + 16), 4),
           8)

\* lines 178-197: the size of the argument chunk
linux_args_size(argv) ==
  ALIGN_UP(Len(argv) * 4 + 2 * 4 + 4
           + ALIGN_UP(SizeofLit(Len(Str_a0)), 4)
           + ArgsLen(argv, 2)
           + ALIGN_UP(SizeofLit(Len(Str_rd_start) + 16), 4)
           + ALIGN_UP(SizeofLit(Len(Str_rd_size) + 16), 4),
           8)

\* grub_cmd_linux without lines 174-176
linux_release_skipped(s) == s

\* lines 174-176: release the previously used memory
linux_release(s) == [grub_loader_unset(s) EXCEPT !.loaded = 0]

RECURSIVE CopyArgs_packed(_, _, _, _, _)
\* lines 231-237 without ALIGN_UP at line 236
CopyArgs_packed(m, a, argv, i, off) ==
  IF i >= Len(argv) THEN m
  ELSE CopyArgs_packed(WriteSlot(WriteStr(m, off, argv[i + 1]), i,
                                 Narrow32(AddOff(a, off))),
                       a, argv, i + 1, off + Len(argv[i + 1]) + 1)

RECURSIVE CopyArgs(_, _, _, _, _)
\* lines 231-237: copies argv[i .. argc - 1] to offset off and on, and
\* stores their addresses in slot i and on
CopyArgs(m, a, argv, i, off) ==
  IF i >= Len(argv) THEN m
  ELSE CopyArgs(WriteSlot(WriteStr(m, off, argv[i + 1]), i,
                          Narrow32(AddOff(a, off))),
                a, argv, i + 1, off + ALIGN_UP(Len(argv[i + 1]) + 1, 4))

\* lines 224-236: where linux_args points after the copies
ArgsEnd(argc, argv) ==
  4 * (argc + 1 + 2) + ALIGN_UP(SizeofLit(Len(Str_a0)), 4) + ArgsLen(argv, 2)

\* lines 223-237 with argv[0] copied like the other arguments
linux_copy_args_argv0(m, a, argc, argv) ==
  CopyArgs(m, a, argv, 0, 4 * (argc + 1 + 2))

\* lines 223-237: "a0" and the arguments
linux_copy_args(m, a, argc, argv) ==
  CopyArgs(WriteSlot(WriteStr(m, 4 * (argc + 1 + 2), Str_a0), 0,
                     Narrow32(AddOff(a, 4 * (argc + 1 + 2)))),
           a, argv, 1,
           4 * (argc + 1 + 2) + ALIGN_UP(SizeofLit(Len(Str_a0)), 4))

\* lines 239-250 without the last *linux_argv = 0 of line 250
linux_reserve_no_terminator(m, argc) ==
  WriteSlot(WriteSlot(m, argc, ZeroW(W32)), argc + 1, ZeroW(W32))

\* lines 239-250: the two reserved slots and the terminator
linux_reserve(m, argc) ==
  WriteSlot(WriteSlot(WriteSlot(m, argc, ZeroW(W32)),
                      argc + 1, ZeroW(W32)),
            argc + 2, ZeroW(W32))

\* lines 223-250: lays out the pointer table and the strings
linux_build_args(s, argv) ==
  [s EXCEPT
     !.rd_addr_arg_off = ArgsEnd(s.linux_argc, argv),
     !.rd_size_arg_off = ArgsEnd(s.linux_argc, argv)
                         + ALIGN_UP(SizeofLit(Len(Str_rd_start) + 16), 4),
     !.argmem = linux_reserve(
                  linux_copy_args(s.argmem, s.linux_args_addr,
                                  s.linux_argc, argv),
                  Len(argv))]

\* lines 252-255 without initrd_loaded = 0
linux_register_keeps_initrd(s) ==
  [grub_loader_set(s) EXCEPT
     !.loaded = 1,
     !.mod_ref = @ + 1]

\* lines 252-255
linux_register(s) ==
  [grub_loader_set(s) EXCEPT
     !.initrd_loaded = 0,
     !.loaded = 1,
     !.mod_ref = @ + 1]

\* max_addr of line 215: (0xffffffff - size) + 1 in unsigned int
linux_args_max(size) ==
  Widen64(AddW(SubW(Ones32, FromNat(size, W32)), FromNat(1, W32)))

\* lines 214-217: the argument chunk is asked for in [0, max_addr],
\* size bytes long, aligned to 8
linux_ask_args(s, size) ==
  Asked(s, ReqAlign(NULL, linux_args_max(size), FromNat(size, W64), 8))

\* lines 212-221: the argument chunk; in.achunk and in.place are the
\* allocator's answer
linux_alloc_args(s, in, size) ==
  IF ~(in.achunk /\ LessEqW(in.place.target, linux_args_max(size)))
  THEN grub_error(linux_ask_args(s, size), "OUT_OF_RANGE")
  ELSE [AddChunk(linux_ask_args(s, size), s.relocator, "args")
        EXCEPT !.linux_args_addr = in.place.srcv,
               !.argmem = FreshMem(size)]

\* lines 223-257: after the argument chunk is placed
linux_finish(s, in) ==
  IF s.ret # "NONE" THEN s
  ELSE [linux_register(linux_build_args(s, in.argv)) EXCEPT !.ret = "NONE"]

\* lines 209-221
linux_load(s, in) ==
  IF s.ret # "NONE" THEN s
  ELSE linux_alloc_args(s, in, linux_args_size(in.argv))

\* lines 199-205
linux_dispatch(s, in) ==
  IF in.img.class = 32 THEN grub_linux_load32(s, in)
  ELSE IF in.img.class = 64 THEN grub_linux_load64(s, in)
  ELSE grub_error(s, "BAD_OS")

\* lines 160-172: the checks made before anything is released
linux_check(s, in) ==
  IF Len(in.argv) = 0 THEN grub_error(s, "BAD_ARGUMENT")
  ELSE IF ~in.img.open
  THEN ReturnErrno([s EXCEPT !.grub_errno = "FILE_NOT_FOUND"])
  ELSE IF in.img.e_type # "ET_EXEC" THEN grub_error(s, "UNKNOWN_OS")
  ELSE s

\* lines 174-257
linux_body(s, in) ==
  linux_finish(
    linux_load(
      linux_dispatch([linux_release(s) EXCEPT !.linux_argc = Len(in.argv)],
                     in),
      in),
    in)

\* lines 149-258
grub_cmd_linux(s, in) ==
  IF linux_check(Enter(s), in).ret # "NONE"
  THEN linux_check(Enter(s), in)
  ELSE linux_body(Enter(s), in)

(* ------------------------------------------------------------------ *)
(* grub_cmd_initrd                                                     *)
(* ------------------------------------------------------------------ *)

\* max_addr of line 286: (0xffffffff - size) + 1 in grub_size_t
initrd_max(size) ==
  AddW(SubW(Widen64(Ones32), size), FromNat(1, W64))

\* lines 298-302: "rd_start=0x..." and its slot
initrd_patch_start(m, a, argc, off, initrd_dest) ==
  WriteSlot(Snprintf(m, off, SizeofLit(Len(Str_rd_start) + 16),
                     Str_rd_start \o FormatHex(initrd_dest)),
            argc, Narrow32(AddOff(a, off)))

\* lines 305-309 with linux_argc counted before the slot is stored
initrd_patch_size_counted_first(m, a, argc, off, size) ==
  WriteSlot(Snprintf(m, off, SizeofLit(Len(Str_rd_size) + 17),
                     Str_rd_size \o FormatHex(size)),
            argc + 1, Narrow32(AddOff(a, off)))

\* lines 305-309: "rd_size=0x..." and its slot
initrd_patch_size(m, a, argc, off, size) ==
  WriteSlot(Snprintf(m, off, SizeofLit(Len(Str_rd_size) + 17),
                     Str_rd_size \o FormatHex(size)),
            argc, Narrow32(AddOff(a, off)))

\* lines 298-312 with the second linux_argc++ left out
initrd_patch_one_increment(s, initrd_dest, size) ==
  [s EXCEPT
     !.argmem = initrd_patch_size(
                  initrd_patch_start(s.argmem, s.linux_args_addr,
                                     s.linux_argc, s.rd_addr_arg_off,
                                     initrd_dest),
                  s.linux_args_addr, s.linux_argc + 1, s.rd_size_arg_off,
                  size),
     !.linux_argc = s.linux_argc + 1,
     !.initrd_loaded = 1]

\* lines 298-303: the program's state between the two linux_argc++, with
\* "rd_start=0x..." filled in, its address stored and counted
initrd_patch_counted_start(s, initrd_dest) ==
  [s EXCEPT
     !.argmem = initrd_patch_start(s.argmem, s.linux_args_addr,
                                   s.linux_argc, s.rd_addr_arg_off,
                                   initrd_dest),
     !.linux_argc = s.linux_argc + 1]

\* lines 298-312: fills the two reserved strings, stores their addresses
\* in the slots linux_argc and linux_argc + 1, counts them
initrd_patch(s, initrd_dest, size) ==
  LET mid == initrd_patch_counted_start(s, initrd_dest) IN
  [mid EXCEPT
     !.argmem = initrd_patch_size(mid.argmem, mid.linux_args_addr,
                                  mid.linux_argc, mid.rd_size_arg_off,
                                  size),
     !.linux_argc = mid.linux_argc + 1,
     !.initrd_loaded = 1]

\* lines 284-288: the ramdisk chunk is asked for in [0, max_addr], size
\* bytes long, aligned to 0x10000
initrd_ask(s, size) ==
  Asked(s, ReqAlign(NULL, initrd_max(size), size, 65536))

\* lines 283-312 with the blob patched before the payload is loaded
initrd_place_patch_first(s, in) ==
  IF ~(in.chunk /\ LessEqW(in.place.target, initrd_max(in.size))
                /\ AlignedW(in.place.target, 65536))
  THEN ReturnErrno([s EXCEPT !.grub_errno = "OUT_OF_RANGE"])
  ELSE IF ~in.load
  THEN ReturnErrno([initrd_patch(AddChunk(s, s.relocator, "initrd"),
                                 in.place.srcv, in.size)
                    EXCEPT !.grub_errno = "FILE_READ_ERROR"])
  ELSE ReturnErrno(initrd_patch(AddChunk(s, s.relocator, "initrd"),
                                in.place.srcv, in.size))

\* lines 283-296 with the chunk of a failed payload load given back
initrd_place_chunk_freed(s, in) ==
  IF ~(in.chunk /\ LessEqW(in.place.target, initrd_max(in.size))
                /\ AlignedW(in.place.target, 65536))
  THEN ReturnErrno([initrd_ask(s, in.size) EXCEPT
                      !.grub_errno = "OUT_OF_RANGE"])
  ELSE IF ~in.load
  THEN ReturnErrno([initrd_ask(s, in.size) EXCEPT
                      !.grub_errno = "FILE_READ_ERROR"])
  ELSE ReturnErrno(initrd_patch(AddChunk(initrd_ask(s, in.size),
                                         s.relocator, "initrd"),
                                in.place.srcv, in.size))

\* lines 283-296: the ramdisk chunk, then its payload
initrd_place(s, in) ==
  IF ~(in.chunk /\ LessEqW(in.place.target, initrd_max(in.size))
                /\ AlignedW(in.place.target, 65536))
  THEN ReturnErrno([initrd_ask(s, in.size) EXCEPT
                      !.grub_errno = "OUT_OF_RANGE"])
  ELSE IF ~in.load
  THEN ReturnErrno([AddChunk(initrd_ask(s, in.size), s.relocator, "initrd")
                    EXCEPT !.grub_errno = "FILE_READ_ERROR"])
  ELSE ReturnErrno(initrd_patch(AddChunk(initrd_ask(s, in.size),
                                         s.relocator, "initrd"),
                                in.place.srcv, in.size))

\* lines 269-317 without the check of line 272
initrd_body_no_loaded_check(s, in) ==
  IF Len(in.argv) = 0 THEN grub_error(s, "BAD_ARGUMENT")
  ELSE IF s.initrd_loaded # 0 THEN grub_error(s, "BAD_ARGUMENT")
  ELSE IF ~in.init
  THEN ReturnErrno([s EXCEPT !.grub_errno = "FILE_NOT_FOUND"])
  ELSE initrd_place(s, in)

\* lines 269-317 without the check of line 275
initrd_body_no_once_check(s, in) ==
  IF Len(in.argv) = 0 THEN grub_error(s, "BAD_ARGUMENT")
  ELSE IF s.loaded = 0 THEN grub_error(s, "BAD_ARGUMENT")
  ELSE IF ~in.init
  THEN ReturnErrno([s EXCEPT !.grub_errno = "FILE_NOT_FOUND"])
  ELSE initrd_place(s, in)

\* lines 269-317, from a command that starts with grub_errno clear
initrd_body(s, in) ==
  IF Len(in.argv) = 0 THEN grub_error(s, "BAD_ARGUMENT")
  ELSE IF s.loaded = 0 THEN grub_error(s, "BAD_ARGUMENT")
  ELSE IF s.initrd_loaded # 0 THEN grub_error(s, "BAD_ARGUMENT")
  ELSE IF ~in.init
  THEN ReturnErrno([s EXCEPT !.grub_errno = "FILE_NOT_FOUND"])
  ELSE initrd_place(s, in)

\* lines 260-318
grub_cmd_initrd(s, in) == initrd_body(Enter(s), in)

(* ------------------------------------------------------------------ *)
(* The commands as steps of the program                                *)
(* ------------------------------------------------------------------ *)

\* pc: "prompt" while commands can be issued, "jumped" once the kernel
\* runs.  History: cmd is the last command; was holds the loaded and
\* initrd_loaded flags it started from; tried holds the image given to
\* the last command when it was a `linux' with a file name; good holds the
\* arguments, entry address, base, span and chunk address given to the
\* last `linux' that succeeded, and rd the destination and size of the
\* `initrd' that succeeded after it, until that load is undone (by an
\* unload, or by a later `linux' that got as far as releasing it).
VARIABLES pc, cmd, was, tried, good, rd

vars == <<progVars, pc, cmd, was, tried, good, rd>>

NoArg ==
  [argc |-> 0, argv |-> << >>, e_entry |-> NULL, base |-> NULL, span |-> 0,
   srcv |-> NULL]

NoTry == NoImage

NoRd == [dest |-> NULL, size |-> NULL]

Init ==
  /\ loaded = InitState.loaded
  /\ linux_size = InitState.linux_size
  /\ relocator = InitState.relocator
  /\ target_addr = InitState.target_addr
  /\ entry_addr = InitState.entry_addr
  /\ linux_argc = InitState.linux_argc
  /\ linux_args_addr = InitState.linux_args_addr
  /\ rd_addr_arg_off = InitState.rd_addr_arg_off
  /\ rd_size_arg_off = InitState.rd_size_arg_off
  /\ initrd_loaded = InitState.initrd_loaded
  /\ loader_set = InitState.loader_set
  /\ mod_ref = InitState.mod_ref
  /\ heap = InitState.heap
  /\ argmem = InitState.argmem
  /\ grub_errno = InitState.grub_errno
  /\ ub = InitState.ub
  /\ ret = InitState.ret
  /\ regs = InitState.regs
  /\ req = InitState.req
  /\ pc = "prompt"
  /\ cmd = "none"
  /\ was = <<0, 0>>
  /\ tried = NoTry
  /\ good = NoArg
  /\ rd = NoRd

\* the image header and placement a `linux' command was given
ArgOf(in) ==
  [argc |-> Len(in.argv),
   argv |-> in.argv,
   e_entry |-> IF in.img.class = 32 THEN Widen64(in.img.e_entry)
               ELSE in.img.e_entry,
   base |-> IF in.img.class = 32 THEN Widen64(in.img.base) ELSE in.img.base,
   span |-> in.img.span,
   srcv |-> in.place.srcv]

\* the `linux' command, its collaborators answering as one of Ins
LinuxStep(Ins) ==
  /\ pc = "prompt"
  /\ \E in \in Ins :
       \E s \in {grub_cmd_linux(Cur, in)} :
         /\ Commit(s)
         /\ good' = IF s.ret = "NONE" THEN ArgOf(in)
                    ELSE IF linux_check(Enter(Cur), in).ret = "NONE"
                    THEN NoArg ELSE good
         /\ rd' = IF linux_check(Enter(Cur), in).ret = "NONE"
                  THEN NoRd ELSE rd
         /\ tried' = IF Len(in.argv) = 0 THEN NoTry ELSE in.img
  /\ cmd' = "linux"
  /\ was' = <<loaded, initrd_loaded>>
  /\ pc' = pc

\* the `linux' command
Linux == LinuxStep(LinuxInputs)

\* the `initrd' command, its collaborators answering as one of Ins; a
\* payload load is let fail, and leave its chunk behind, only while the
\* relocator holds fewer than MaxChunks chunks
InitrdStep(Ins) ==
  /\ pc = "prompt"
  /\ \E in \in Ins :
       /\ (in.chunk /\ ~in.load /\ relocator \in Live(Cur))
            => Len(heap[relocator]) < MaxChunks
       /\ \E s \in {grub_cmd_initrd(Cur, in)} :
            /\ Commit(s)
            /\ rd' = IF s.ret = "NONE"
                     THEN [dest |-> in.place.srcv, size |-> in.size]
                     ELSE rd
  /\ cmd' = "initrd"
  /\ was' = <<loaded, initrd_loaded>>
  /\ tried' = NoTry
  /\ UNCHANGED <<pc, good>>

\* the `initrd' command
Initrd == InitrdStep(InitrdInputs)

\* the loader framework runs the registered boot handler; the jump
\* primitive either transfers control or fails and returns
Boot ==
  /\ pc = "prompt"
  /\ loader_set
  /\ \E s \in {grub_linux_boot(Enter(Cur))} : Commit(s)
  /\ cmd' = "boot"
  /\ was' = <<loaded, initrd_loaded>>
  /\ pc' \in {"prompt", "jumped"}
  /\ tried' = NoTry
  /\ UNCHANGED <<good, rd>>

\* the loader framework unsets the loader (another loader takes over, or
\* an unload is requested): the registered unload handler runs
Unload ==
  /\ pc = "prompt"
  /\ loader_set
  /\ \E s \in {grub_loader_unset(Enter(Cur))} : Commit(s)
  /\ cmd' = "unload"
  /\ was' = <<loaded, initrd_loaded>>
  /\ tried' = NoTry
  /\ good' = NoArg
  /\ rd' = NoRd
  /\ pc' = pc

Next == Linux \/ Initrd \/ Boot \/ Unload

Spec == Init /\ [][Next]_vars

(* ------------------------------------------------------------------ *)
(* The same program on a wider choice of command lines, images and     *)
(* ramdisk sizes, every allocation but the ramdisk's being granted     *)
(* ------------------------------------------------------------------ *)

Str_abc == <<97, 98, 99>>
Str_abcd == <<97, 98, 99, 100>>

\* command lines with an empty argument, with arguments whose length plus
\* terminator is a multiple of 4 or one more, and with argv[1] = "a0"
WideArgvs ==
  { <<Str_k>>,
    <<Str_k, << >>>>,
    <<Str_k, Str_abc, Str_abcd>>,
    <<Str_init, Str_a0, Str_ro, Str_k>> }

\* the two images of GoodImages, the first one also as an ELF64 image of
\* the same base and span, the second one also as an ELF32 image of the
\* same span and the low 32 bits of its base
WideImages ==
  GoodImages
  \cup { Img(TRUE, "ET_EXEC", 64, Widen64(Addr32_entry),
             Widen64(Addr32_base), 131072),
         Img(TRUE, "ET_EXEC", 32, Narrow32(Addr64_entry2),
             Narrow32(Addr64_base2), 131069) }

WideLinuxInputs ==
  { LinuxIn(a, i, TRUE, TRUE, TRUE, TRUE, APlacement) :
      a \in WideArgvs, i \in WideImages }
  \cup { LinuxIn(a, i, TRUE, TRUE, TRUE, TRUE, p) :
           a \in WideArgvs, i \in {CHOOSE g \in GoodImages : TRUE},
           p \in Placements }

\* 0xffffffffffff0000
HugeSize == <<15, 15, 15, 15, 15, 15, 15, 15, 15, 15, 15, 15, 0, 0, 0, 0>>

\* 0, 0x1000, 0xffff0000, 0x100000000, 0x100010000, 0xffffffffffff0000
WideSizes ==
  { ZeroW(W64),
    FromNat(4096, W64),
    <<0, 0, 0, 0, 0, 0, 0, 0, 15, 15, 15, 15, 0, 0, 0, 0>>,
    <<0, 0, 0, 0, 0, 0, 0, 1, 0, 0, 0, 0, 0, 0, 0, 0>>,
    <<0, 0, 0, 0, 0, 0, 0, 1, 0, 0, 0, 1, 0, 0, 0, 0>>,
    HugeSize }

\* Where the allocator can place the ramdisk chunk:
\*   0x00000000 mapped at 0xffffffff80000000
\*   0x0ff00000 mapped at 0xffffffff8ff00000
WideInitrdPlacements ==
  InitrdPlacements
  \cup { [target |-> NULL,
          srcv |-> <<15, 15, 15, 15, 15, 15, 15, 15, 8, 0, 0, 0, 0, 0, 0, 0>>] }

WideInitrdInputs ==
  { InitrdIn(<<Str_k>>, TRUE, z, TRUE, p, TRUE) :
      z \in WideSizes, p \in WideInitrdPlacements }
  \cup { InitrdIn(<<Str_k>>, TRUE, ZeroW(W64), TRUE, AnInitrdPlacement, FALSE) }

LinuxWide == LinuxStep(WideLinuxInputs)

InitrdWide == InitrdStep(WideInitrdInputs)

NextWide == LinuxWide \/ InitrdWide \/ Boot \/ Unload

SpecWide == Init /\ [][NextWide]_vars

(* ------------------------------------------------------------------ *)
(* Claims                                                              *)
(* ------------------------------------------------------------------ *)

\* the codes grub_cmd_linux returns from its checks of lines 160-172:
\* no file name, grub_elf_open failed, e_type is not ET_EXEC
EarlyErrors == {"BAD_ARGUMENT", "FILE_NOT_FOUND", "UNKNOWN_OS"}

\* slot i of the pointer table, as a number
Slot(i) == ToNat(ReadSlot(argmem, i))

Flag(b) == IF b = 0 THEN 0 ELSE 1

C2_FailedAttachKeepsKernel ==
  (cmd = "initrd" /\ ret # "NONE" /\ was = <<1, 0>>) =>
    /\ loaded = 1 /\ initrd_loaded = 0
    /\ linux_argc = good.argc
    /\ Slot(linux_argc) = 0 /\ Slot(linux_argc + 1) = 0
    /\ loader_set

\* the payload load failed, the last step that can
C2_Witness ==
  cmd = "initrd" /\ ret = "FILE_READ_ERROR" /\ was = <<1, 0>> /\ loaded = 1

\* C3: an `initrd' command issued while no kernel is loaded returns
\* BAD_ARGUMENT and changes neither linux_argc, the argument chunk's memory,
\* initrd_loaded nor the allocated chunks.
C3_AttachNeedsKernel ==
  [][(cmd' = "initrd" /\ loaded = 0) =>
       /\ ret' = "BAD_ARGUMENT"
       /\ UNCHANGED <<linux_argc, argmem, initrd_loaded, heap>>]_vars

\* `initrd' was refused after a kernel had been loaded and released
C3_Witness ==
  /\ cmd = "initrd" /\ was[1] = 0 /\ ret = "BAD_ARGUMENT"
  /\ argmem # NoMem /\ loaded = 0

\* C4: once an `initrd' command has succeeded, every further one (until a
\* `linux' command succeeds) returns an error, allocates no chunk, and
\* leaves linux_argc and the memory of the argument chunk (pointer table and
\* rd_* strings) as they were.
C4_AttachOnce ==
  [][(cmd' = "initrd" /\ initrd_loaded = 1) =>
       /\ ret' # "NONE"
       /\ UNCHANGED <<heap, linux_argc, argmem, initrd_loaded>>]_vars

\* a second `initrd' with kernel and ramdisk loaded
C4_Witness ==
  cmd = "initrd" /\ was = <<1, 1>> /\ ret = "BAD_ARGUMENT" /\ linux_argc = 5

\* C5: while the kernel of a `linux' command given n arguments is loaded,
\* linux_argc is n without a ramdisk and n + 2 with one; until the next
\* successful `linux' or unload it never decreases, and a command that
\* fails does not change it.
C5_ArgumentCount ==
  [][/\ loaded' = 1 => linux_argc' = good'.argc + 2 * Flag(initrd_loaded')
     /\ (loaded = 1 /\ loaded' = 1 /\ ~(cmd' = "linux" /\ ret' = "NONE")) =>
          /\ linux_argc' >= linux_argc
          /\ ret' # "NONE" => linux_argc' = linux_argc]_vars

\* a command failed after the ramdisk of a three-argument load was attached
C5_Witness ==
  /\ loaded = 1 /\ initrd_loaded = 1 /\ good.argc = 3 /\ linux_argc = 5
  /\ ret # "NONE"

\* C6: a `linux' command that succeeds, whatever the state it started
\* from, leaves loaded = 1, initrd_loaded = 0, linux_argc equal to its own
\* argument count, both reserved slots 0, entry_addr and linux_args_addr
\* those of its own image and chunk, its relocator holding the kernel and
\* argument chunks only, and an `initrd' command acceptable.
C6_LoadResets ==
  (cmd = "linux" /\ ret = "NONE") =>
    /\ loaded = 1 /\ initrd_loaded = 0 /\ loader_set
    /\ linux_argc = good.argc
    /\ Slot(linux_argc) = 0 /\ Slot(linux_argc + 1) = 0
    /\ entry_addr = good.e_entry
    /\ linux_args_addr = good.srcv
    /\ relocator \in Live(Cur)
    /\ heap[relocator] = <<"kernel", "args">>
    /\ \E in \in InitrdInputs :
         /\ grub_cmd_initrd(Cur, in).ret = "NONE"
         /\ grub_cmd_initrd(Cur, in).linux_argc = good.argc + 2

\* a `linux' command succeeded with kernel and ramdisk loaded
C6_Witness ==
  cmd = "linux" /\ ret = "NONE" /\ was = <<1, 1>> /\ initrd_loaded = 0

\* C7 as stated: no relocator of an earlier load stays allocated; at most
\* the relocator of the most recent load is live, and none is live when no
\* kernel is loaded.
C7_NoLeak ==
  /\ Live(Cur) \subseteq {relocator}
  /\ loaded = 0 => Live(Cur) = {}

\* what a user of the commands can tell of a state: the result of the last
\* command, whether `boot' is available, and with a kernel loaded the
\* argument count, the argument chunk's memory and the registers `boot'
\* would hand over
Observe(s) ==
  [ret |-> s.ret,
   bootable |-> s.loader_set,
   argc |-> IF s.loaded = 1 THEN s.linux_argc ELSE 0,
   blob |-> IF s.loaded = 1 THEN s.argmem ELSE NoMem,
   regs |-> IF s.loader_set THEN grub_linux_boot(Enter(s)).regs ELSE NoRegs]

\* C8 as stated, for sequences of two `linux' commands: after an unload,
\* each of the two commands has the same outcome (result, availability of
\* boot, argument count, blob contents, registers at boot) as it has when
\* the same two commands are run from the initial state.
C8_UnloadRestoresInitial ==
  cmd = "unload" =>
    \A in1 \in LinuxInputs :
      \A a1 \in {grub_cmd_linux(Cur, in1)} :
        \A b1 \in {grub_cmd_linux(InitState, in1)} :
          /\ Observe(a1) = Observe(b1)
          /\ \A in2 \in LinuxInputs :
               Observe(grub_cmd_linux(a1, in2))
                 = Observe(grub_cmd_linux(b1, in2))

\* C9: whenever the boot handler runs, the register state it hands over has
\* gpr[1] (the jump register) equal to the entry address of the load in
\* effect, gpr[4] equal to linux_argc, which is that load's argument count
\* plus 2 iff a ramdisk is attached, and gpr[5] equal to the address of the
\* argument chunk of that load.
C9_BootRegisters ==
  cmd = "boot" =>
    /\ regs.jumpreg = 1
    /\ regs.gpr1 = good.e_entry
    /\ regs.gpr4 = linux_argc
    /\ regs.gpr4 = good.argc + 2 * Flag(initrd_loaded)
    /\ regs.gpr5 = good.srcv

\* the kernel was entered with a ramdisk attached
C9_Witness ==
  cmd = "boot" /\ pc = "jumped" /\ initrd_loaded = 1 /\ regs.gpr4 = 5

\* C10: the boot and unload handlers are registered exactly when loaded is
\* 1, so the boot handler only runs with a kernel loaded by a `linux'
\* command that succeeded and was not undone since.
C10_BootOnlyWhenLoaded ==
  /\ loader_set <=> loaded = 1
  /\ cmd = "boot" => (was[1] = 1 /\ loaded = 1 /\ good # NoArg)

\* the boot handler ran (and the jump failed) after a load, an unload and
\* another load
C10_Witness ==
  /\ cmd = "boot" /\ pc = "prompt" /\ loaded = 1 /\ loader_set
  /\ relocator = 2

\* an image the `linux' command rejects for what it is: not ET_EXEC,
\* neither ELF32 nor ELF64, or of span 0
Rejected(img) ==
  img.open /\ (img.e_type # "ET_EXEC" \/ img.class \notin {32, 64}
               \/ img.span = 0)

\* C11: a `linux' command given an image that is not ET_EXEC, is neither
\* ELF32 nor ELF64, or has span 0 fails without a call to the allocator:
\* no grub_relocator_new, no chunk request, and no relocator or chunk that
\* was not there before.
C11_RejectedBeforeAllocation ==
  [][(cmd' = "linux" /\ Rejected(tried')) =>
       /\ ret' # "NONE"
       /\ req' = << >>
       /\ \A r \in DOMAIN heap' : r \in DOMAIN heap /\ heap'[r] = heap[r]]_vars

\* an image of span 0 was rejected with a kernel loaded before
C11_Witness ==
  /\ cmd = "linux" /\ tried.open /\ tried.e_type = "ET_EXEC"
  /\ tried.class = 32 /\ tried.span = 0
  /\ was[1] = 1 /\ ret = "BAD_OS" /\ req = << >>

\* the offset in the argument chunk of the address slot i holds, taken
\* as a 32-bit address in the chunk; -1 when it is not one
SlotOff(i) ==
  LET d == SubW(ReadSlot(argmem, i), Narrow32(linux_args_addr))
  IN  IF SubSeq(d, 1, 4) = ZeroW(4) /\ ToNat(d) < argmem.size
      THEN ToNat(d) ELSE 0 - 1

\* the bytes of the chunk from offset off, n of them
BytesAt(off, n) ==
  IF off < 0 \/ off + n > argmem.size THEN << >>
  ELSE SubSeq(argmem.bytes, off + 1, off + n)

\* the chunk holds the string str and its terminator at offset off
HoldsStr(off, str) == BytesAt(off, Len(str) + 1) = Append(str, 0)

\* C12: while a kernel is loaded, before and after an `initrd', slot 0
\* of the pointer table holds the address of a string in the argument
\* chunk that is "a0", whatever argv[0] was.
C12_SlotZeroIsA0 ==
  loaded = 1 =>
    /\ SlotOff(0) >= 0
    /\ HoldsStr(SlotOff(0), Str_a0)
    /\ CStringAt(argmem, SlotOff(0)) # good.argv[1]

\* a ramdisk was attached to a kernel loaded with four arguments
C12_Witness ==
  /\ cmd = "initrd" /\ ret = "NONE" /\ loaded = 1 /\ initrd_loaded = 1
  /\ good.argc = 4

\* C13: a `linux' command that gets as far as the kernel chunk, for an
\* ELF32 or an ELF64 image, has target_addr equal to the base the image
\* declares and asks for the chunk with grub_relocator_alloc_chunk_addr at
\* the physical address of that base, with a size that is the span rounded
\* up to the next multiple of 8; address and size depend on the base and
\* the span only, not on the width.
C13_KernelChunkRequest ==
  (cmd = "linux" /\ Len(req) >= 2) =>
    /\ req[1] = ReqNew
    /\ req[2].fn = "chunk_addr"
    /\ target_addr = (IF tried.class = 32 THEN ZeroW(8) \o tried.base
                      ELSE tried.base)
    /\ req[2].addr = grub_vtop(ZeroW(8) \o Narrow32(tried.base))
    /\ ToNat(req[2].size) % 8 = 0
    /\ ToNat(req[2].size) >= tried.span
    /\ ToNat(req[2].size) < tried.span + 8
    /\ linux_size = ToNat(req[2].size)

\* the kernel of an ELF64 image with the base and span of the ELF32
\* image was loaded
C13_Witness ==
  /\ cmd = "linux" /\ ret = "NONE" /\ tried.class = 64
  /\ tried.base = Widen64(Addr32_base)
  /\ Len(req) >= 2 /\ req[2].addr = grub_vtop(Widen64(Addr32_base))

\* slot i holds a 32-bit value that is not 0 and is a multiple of 4
SlotAligned(i) ==
  ReadSlot(argmem, i) # ZeroW(W32) /\ Low16(ReadSlot(argmem, i)) % 4 = 0

\* "rd_size=0x1000", "rd_size=0x0", "rd_start=0xffffffff8ff00000"
Str_rd_size_1000 ==
  <<114, 100, 95, 115, 105, 122, 101, 61, 48, 120, 49, 48, 48, 48>>
Str_rd_size_0 == <<114, 100, 95, 115, 105, 122, 101, 61, 48, 120, 48>>
Str_rd_start_8ff00000 ==
  <<114, 100, 95, 115, 116, 97, 114, 116, 61, 48, 120,
    102, 102, 102, 102, 102, 102, 102, 102, 56, 102, 102, 48, 48, 48, 48, 48>>

\* C14: with a ramdisk attached to a kernel loaded with n arguments, slot
\* n holds the 32-bit address of offset rd_addr_arg_off of the argument
\* chunk, where the string is "rd_start=0x" and the destination address
\* of the ramdisk in hexadecimal; slot n + 1 holds the address of offset
\* rd_size_arg_off, where the string is "rd_size=0x" and the size in
\* hexadecimal; both slots are non-zero multiples of 4; the slots written
\* are n and n + 1 (each before linux_argc counts it), and slot n + 2
\* still is the terminator.
C14_RamdiskArguments ==
  (loaded = 1 /\ initrd_loaded = 1) =>
    /\ linux_argc = good.argc + 2
    /\ ReadSlot(argmem, good.argc)
         = Narrow32(AddOff(good.srcv, rd_addr_arg_off))
    /\ SlotOff(good.argc) = rd_addr_arg_off
    /\ HoldsStr(rd_addr_arg_off, Str_rd_start \o FormatHex(rd.dest))
    /\ ReadSlot(argmem, good.argc + 1)
         = Narrow32(AddOff(good.srcv, rd_size_arg_off))
    /\ SlotOff(good.argc + 1) = rd_size_arg_off
    /\ HoldsStr(rd_size_arg_off, Str_rd_size \o FormatHex(rd.size))
    /\ rd.size = FromNat(4096, W64)
         => HoldsStr(rd_size_arg_off, Str_rd_size_1000)
    /\ rd.size = ZeroW(W64) => HoldsStr(rd_size_arg_off, Str_rd_size_0)
    /\ rd.dest = AnInitrdPlacement.srcv
         => HoldsStr(rd_addr_arg_off, Str_rd_start_8ff00000)
    /\ SlotAligned(good.argc) /\ SlotAligned(good.argc + 1)
    /\ ReadSlot(argmem, good.argc + 2) = ZeroW(W32)

\* a ramdisk of 0x1000 bytes was attached to a kernel loaded with three
\* arguments
C14_Witness ==
  /\ cmd = "initrd" /\ ret = "NONE" /\ was = <<1, 0>>
  /\ initrd_loaded = 1 /\ good.argc = 3
  /\ rd.size = FromNat(4096, W64) /\ rd.dest = AnInitrdPlacement.srcv

\* C15: no store of the `linux' and `initrd' commands falls outside the
\* argument chunk, whose size is the one asked of the allocator: the
\* chunk's memory never records a store out of bounds, the pointer table
\* ends where the strings begin, and each reserved region has room for
\* the most grub_snprintf may write there (its size argument) before the
\* next region or the end of the chunk.
C15_WritesInsideChunk ==
  /\ ~argmem.oob
  /\ Len(argmem.bytes) = argmem.size
  /\ (cmd = "linux" /\ ret = "NONE") =>
       /\ Len(req) = 3 /\ req[3].fn = "chunk_align"
       /\ ToNat(req[3].size) = argmem.size
  /\ loaded = 1 =>
       /\ 4 * (good.argc + 3) = SlotOff(0)
       /\ rd_addr_arg_off + 28 <= rd_size_arg_off
       /\ rd_size_arg_off + 28 <= argmem.size

\* the longest strings were written to both reserved regions of the chunk
\* of a four-argument load
C15_Witness ==
  /\ loaded = 1 /\ initrd_loaded = 1 /\ good.argc = 4 /\ rd.size = HugeSize
  /\ argmem.bytes[rd_size_arg_off + 27] = 0
  /\ argmem.bytes[rd_addr_arg_off + 28] = 0

\* where the string after the one of slot i begins: 4 bytes after "a0",
\* and the length plus terminator, rounded up to 4, after argv[i]
NextStr(i) ==
  SlotOff(i) + (IF i = 0 THEN 4
                ELSE ((Len(good.argv[i + 1]) + 1 + 3) \div 4) * 4)

\* C16: while the kernel of a `linux' command given n arguments is loaded,
\* the strings begin right after the n + 3 slots of the pointer table;
\* for each i in 1 .. n - 1 slot i holds the address of a NUL-terminated
\* copy of argv[i]; the strings follow one another in argument order at
\* multiples of 4; rd_addr_arg_off and rd_size_arg_off are the offsets of
\* the two regions of 28 bytes after the last argument; and when the
\* command returns, slots n, n + 1 and n + 2 are 0.
C16_BlobLayout ==
  /\ loaded = 1 =>
       /\ SlotOff(0) = 4 * (good.argc + 3)
       /\ \A i \in 1..(good.argc - 1) :
            /\ SlotOff(i) = NextStr(i - 1)
            /\ SlotOff(i) % 4 = 0
            /\ HoldsStr(SlotOff(i), good.argv[i + 1])
            /\ CStringAt(argmem, SlotOff(i)) = good.argv[i + 1]
       /\ rd_addr_arg_off = NextStr(good.argc - 1)
       /\ rd_size_arg_off = rd_addr_arg_off + 28
  /\ (cmd = "linux" /\ ret = "NONE") =>
       \A i \in good.argc..(good.argc + 2) : ReadSlot(argmem, i) = ZeroW(W32)

\* `linux' k abc abcd succeeded: the strings are at 24, 28 and 32, the
\* reserved regions at 40 and 68
C16_Witness ==
  /\ cmd = "linux" /\ ret = "NONE" /\ good.argv = <<Str_k, Str_abc, Str_abcd>>
  /\ SlotOff(0) = 24 /\ SlotOff(1) = 28 /\ SlotOff(2) = 32
  /\ rd_addr_arg_off = 40 /\ rd_size_arg_off = 68

\* 0x100000000
FourGiB == <<0, 0, 0, 0, 0, 0, 0, 1, 0, 0, 0, 0, 0, 0, 0, 0>>

\* C18 as stated: whatever total size grub_get_initrd_size returns, the
\* `initrd' command asks for a chunk of that size aligned to 0x10000 with
\* start addresses from 0 to a max_addr that did not wrap around and that
\* keeps the whole chunk below 4 GiB: max_addr + size = 2^32.
C18_RamdiskBelow4GiB ==
  (cmd = "initrd" /\ req # << >>) =>
    /\ req[1].fn = "chunk_align"
    /\ req[1].align = 65536
    /\ req[1].min = NULL
    /\ LessEqW(req[1].size, FourGiB)
    /\ LessEqW(req[1].max, FourGiB)
    /\ AddW(req[1].max, req[1].size) = FourGiB

\* the table read as a NULL-terminated argv of argc entries
ArgvWellFormed(m, argc) ==
  /\ ReadSlot(m, argc) = ZeroW(W32)
  /\ \A i \in 0..(argc - 1) : ReadSlot(m, i) # ZeroW(W32)

\* C19: whenever a kernel is loaded, slot linux_argc of the pointer table
\* is 0 and every slot below it is not: after `linux', between the two
\* linux_argc++ of `initrd' (whatever address the ramdisk got), after
\* `initrd', and with the argc handed to the kernel at boot.
C19_ArgvTerminated ==
  /\ loaded = 1 => ArgvWellFormed(argmem, linux_argc)
  /\ (loaded = 1 /\ initrd_loaded = 0) =>
       \A p \in WideInitrdPlacements :
         LET mid == initrd_patch_counted_start(Cur, p.srcv) IN
           /\ mid.linux_argc = linux_argc + 1
           /\ ArgvWellFormed(mid.argmem, mid.linux_argc)
  /\ (cmd = "boot" /\ loaded = 1) => ArgvWellFormed(argmem, regs.gpr4)

\* booted with four arguments and a ramdisk: six entries, then the NULL
C19_Witness ==
  /\ cmd = "boot" /\ loaded = 1 /\ initrd_loaded = 1
  /\ good.argc = 4 /\ regs.gpr4 = 6
  /\ ReadSlot(argmem, 5) # ZeroW(W32)
  /\ ReadSlot(argmem, 6) = ZeroW(W32)

\* the number of ramdisk chunks the relocator of the loaded kernel holds
RamdiskChunks ==
  IF relocator \in Live(Cur)
  THEN Cardinality({i \in DOMAIN heap[relocator] :
                      heap[relocator][i] = "initrd"})
  ELSE 0

\* C20 as stated: while a kernel is loaded its relocator holds at most one
\* ramdisk chunk, and none unless a ramdisk is attached: an `initrd' that
\* fails after its chunk was allocated leaves no ramdisk chunk behind.
C20_OneRamdiskChunk ==
  loaded = 1 => RamdiskChunks <= Flag(initrd_loaded)

\* C20 amended: an `initrd' command run with a kernel and no ramdisk
\* loaded adds one ramdisk chunk to the relocator when the allocator grants
\* it, whether the payload load then succeeds or fails, and none
\* otherwise; a failed payload load leaves that chunk in the relocator
\* with the blob, linux_argc and initrd_loaded untouched, so such chunks
\* add up; they go when the relocator does: after a `linux' that succeeds
\* the relocator holds the kernel and argument chunks only, and after an
\* unload it is released.
C20_FailedAttachKeepsChunk ==
  [][/\ (cmd' = "initrd" /\ loaded = 1 /\ initrd_loaded = 0) =>
          /\ relocator' = relocator
          /\ relocator \in Live(Cur)
          /\ heap' = [heap EXCEPT ![relocator] =
                        IF ret' \in {"NONE", "FILE_READ_ERROR"}
                        THEN Append(@, "initrd") ELSE @]
          /\ ret' = "FILE_READ_ERROR" =>
               UNCHANGED <<argmem, linux_argc, initrd_loaded, loaded>>
     /\ (cmd' = "linux" /\ ret' = "NONE") =>
          heap'[relocator'] = <<"kernel", "args">>
     /\ cmd' = "unload" => relocator \notin DOMAIN heap'
     /\ loaded' = 1 => RamdiskChunks' >= Flag(initrd_loaded')]_vars

\* a ramdisk was attached after an attach whose payload load failed: the
\* relocator holds two ramdisk chunks
C20_Witness ==
  /\ cmd = "initrd" /\ ret = "NONE" /\ initrd_loaded = 1
  /\ relocator \in Live(Cur)
  /\ heap[relocator] = <<"kernel", "args", "initrd", "initrd">>

====
